---- MODULE Spec2Model ----
(***************************************************************************)
(* Model of the Hello-Window Vulkan bring-up program (src/src/main.cpp):   *)
(* main -> App::run -> createGLFWLibrary, createWindow, initVulkan,        *)
(* mainLoop, cleanup.  The driver and the windowing library are the        *)
(* environment: every status they return is a nondeterministic input, and  *)
(* every create/destroy call the program issues is appended to `calls`.    *)
(***************************************************************************)
EXTENDS Integers, Sequences, FiniteSets, TLC

VARIABLES
    pc,                       \* position of main / App::run
    ENABLE_VALIDATION_LAYERS, \* build-time flag (NDEBUG), fixed for a run
    instanceLayers,           \* what vkEnumerateInstanceLayerProperties reports
    physicalDevices,          \* what vkEnumeratePhysicalDevices reports
    shouldClose,              \* what glfwWindowShouldClose reports: the close flag of the window
    m_window,
    m_instance,
    m_debugMessenger,
    m_surface,
    m_physicalDevice,
    m_device,
    m_swapChain,
    m_swapChainImages,
    m_swapChainImageFormat,
    m_swapChainExtent,
    m_swapChainImageViews,
    m_graphicsQueue,
    m_presentQueue,
    deviceCreateInfo,         \* the VkDeviceCreateInfo handed to the driver
    swapChainCreateInfo,      \* the VkSwapchainCreateInfoKHR handed to the driver
    calls,                    \* library and driver calls that took effect, in order
    polls,                    \* iterations of the event loop so far
    what,                     \* e.what() of the exception main caught
    exitCode,                 \* exit status of the process
    arg,                      \* argument of the function under unit check
    ret                       \* its result

vars == <<pc, ENABLE_VALIDATION_LAYERS, instanceLayers, physicalDevices, shouldClose, m_window,
          m_instance, m_debugMessenger, m_surface, m_physicalDevice, m_device, m_swapChain,
          m_swapChainImages, m_swapChainImageFormat, m_swapChainExtent,
          m_swapChainImageViews, m_graphicsQueue, m_presentQueue, deviceCreateInfo,
          swapChainCreateInfo, calls, polls, what, exitCode, arg, ret>>

appVars == <<m_window, m_instance, m_debugMessenger, m_surface, m_physicalDevice,
             m_device, m_swapChain, m_swapChainImages, m_swapChainImageFormat,
             m_swapChainExtent, m_swapChainImageViews, m_graphicsQueue, m_presentQueue,
             deviceCreateInfo, swapChainCreateInfo>>

(***************************************************************************)
(* Bounds of the model.                                                    *)
(***************************************************************************)
MaxDevices == 2        \* physical devices enumerated in a full run
MaxFamilies == 3       \* queue families of a device under unit check
MaxFormats == 3        \* surface formats in a list under unit check
MaxSupport == 1        \* formats / present modes / extensions of a device under unit check
MaxExtraImages == 1    \* images the driver allocates beyond the requested count
MaxPolls == 2          \* event-loop iterations a run is followed for
MaxModes == 4          \* present modes in a list under unit check
MaxExtent == 3         \* largest width or height of an extent under unit check
MaxImageCount == 7     \* largest minImageCount or maxImageCount under unit check
MaxRequired == 2       \* required device extensions under unit check
MaxAvailable == 3      \* available device extensions under unit check
MaxMessages == 2       \* distinct message texts handed to the diagnostic callback

(***************************************************************************)
(* Program constants.                                                      *)
(***************************************************************************)
WIDTH == 800
HEIGHT == 600
EXIT_SUCCESS == 0
EXIT_FAILURE == 1
KilledBySignal == 134  \* exit status when the process is aborted, not returned from
NotExited == -1
\* std::numeric_limits<uint32_t>::max().  TLC's integers are 32-bit signed, so
\* uint32_t is modelled 16 bits wide: its maximum, and arithmetic modulo it plus one.
UINT32_MAX == 65535

VK_NULL_HANDLE == 0
VK_FALSE == 0
VK_DEBUG_UTILS_MESSAGE_SEVERITY_VERBOSE_BIT_EXT == 1
VK_DEBUG_UTILS_MESSAGE_SEVERITY_INFO_BIT_EXT == 16
VK_DEBUG_UTILS_MESSAGE_SEVERITY_WARNING_BIT_EXT == 256
VK_DEBUG_UTILS_MESSAGE_SEVERITY_ERROR_BIT_EXT == 4096
VK_DEBUG_UTILS_MESSAGE_TYPE_GENERAL_BIT_EXT == 1
VK_DEBUG_UTILS_MESSAGE_TYPE_VALIDATION_BIT_EXT == 2
VK_DEBUG_UTILS_MESSAGE_TYPE_PERFORMANCE_BIT_EXT == 4
VK_LAYER_KHRONOS_validation == "VK_LAYER_KHRONOS_validation"
VK_KHR_portability_subset == "VK_KHR_portability_subset"
VK_KHR_SWAPCHAIN_EXTENSION_NAME == "VK_KHR_swapchain"
VALIDATION_LAYERS == <<VK_LAYER_KHRONOS_validation>>
DEVICE_EXTENSIONS == <<VK_KHR_SWAPCHAIN_EXTENSION_NAME>>

VK_FORMAT_B8G8R8A8_SRGB == "VK_FORMAT_B8G8R8A8_SRGB"
VK_FORMAT_B8G8R8A8_UNORM == "VK_FORMAT_B8G8R8A8_UNORM"
VK_COLOR_SPACE_SRGB_NONLINEAR_KHR == "VK_COLOR_SPACE_SRGB_NONLINEAR_KHR"
VK_COLOR_SPACE_DISPLAY_P3_NONLINEAR_EXT == "VK_COLOR_SPACE_DISPLAY_P3_NONLINEAR_EXT"
VK_PRESENT_MODE_IMMEDIATE_KHR == "VK_PRESENT_MODE_IMMEDIATE_KHR"
VK_PRESENT_MODE_MAILBOX_KHR == "VK_PRESENT_MODE_MAILBOX_KHR"
VK_PRESENT_MODE_FIFO_KHR == "VK_PRESENT_MODE_FIFO_KHR"
VK_SHARING_MODE_EXCLUSIVE == "VK_SHARING_MODE_EXCLUSIVE"
VK_SHARING_MODE_CONCURRENT == "VK_SHARING_MODE_CONCURRENT"

Range(s) == {s[i] : i \in 1..Len(s)}
SeqsUpTo(S, n) == UNION {[1..k -> S] : k \in 0..n}

(***************************************************************************)
(* std::optional<uint32_t>: absent is <<>>, present is <<v>>.              *)
(***************************************************************************)
nullopt == <<>>
has_value(o) == o # nullopt
value(o) == o[1]

\* QueueFamilyIndices::isComplete
isComplete(indices) ==
    has_value(indices.graphicsFamily) /\ has_value(indices.presentFamily)

(***************************************************************************)
(* App::findQueueFamilies.  queueFamilies[k] is family k-1 of the device:  *)
(* .graphics is VK_QUEUE_GRAPHICS_BIT of its flags, .present the answer of *)
(* vkGetPhysicalDeviceSurfaceSupportKHR for it on m_surface.  The loop     *)
(* assigns on every family that has the capability and breaks as soon as   *)
(* both fields are set.                                                    *)
(***************************************************************************)
RECURSIVE findQueueFamiliesLoop(_, _, _)
findQueueFamiliesLoop(queueFamilies, i, indices) ==
    IF i >= Len(queueFamilies) THEN indices
    ELSE LET queueFamily == queueFamilies[i + 1]
             withGraphics == IF queueFamily.graphics
                             THEN [indices EXCEPT !.graphicsFamily = <<i>>]
                             ELSE indices
             withPresent == IF queueFamily.present
                            THEN [withGraphics EXCEPT !.presentFamily = <<i>>]
                            ELSE withGraphics
         IN  IF isComplete(withPresent) THEN withPresent
             ELSE findQueueFamiliesLoop(queueFamilies, i + 1, withPresent)

findQueueFamilies(device) ==
    findQueueFamiliesLoop(device.queueFamilies, 0,
                          [graphicsFamily |-> nullopt, presentFamily |-> nullopt])

(***************************************************************************)
(* App::checkDeviceExtensionSupport: a std::set of the required names,     *)
(* each available name erased from it in turn, empty at the end.           *)
(***************************************************************************)
RECURSIVE eraseAll(_, _, _)
eraseAll(requiredExtensions, availableExtensions, k) ==
    IF k > Len(availableExtensions) THEN requiredExtensions
    ELSE eraseAll(requiredExtensions \ {availableExtensions[k]}, availableExtensions, k + 1)

\* a check that is satisfied by any one of the required names
checkExtensionSupportAnyRequired(required, availableExtensions) ==
    \/ required = <<>>
    \/ eraseAll(Range(required), availableExtensions, 1) # Range(required)
\* the body of App::checkDeviceExtensionSupport for the required names `required`
checkExtensionSupport(required, availableExtensions) ==
    eraseAll(Range(required), availableExtensions, 1) = {}

checkDeviceExtensionSupport(device) ==
    checkExtensionSupport(DEVICE_EXTENSIONS, device.extensions)

\* App::querySwapChainSupport
querySwapChainSupport(device) ==
    [capabilities |-> device.capabilities,
     formats |-> device.formats,
     presentModes |-> device.presentModes]

\* a suitability check that forgets the queue-family indices
isPhysicalDeviceSuitableNoIndices(device) ==
    /\ checkDeviceExtensionSupport(device)
    /\ querySwapChainSupport(device).formats # <<>>
    /\ querySwapChainSupport(device).presentModes # <<>>

\* a suitability check that forgets the swapchain support
isPhysicalDeviceSuitableNoSwapChain(device) ==
    isComplete(findQueueFamilies(device)) /\ checkDeviceExtensionSupport(device)

\* App::isPhysicalDeviceSuitable
isPhysicalDeviceSuitable(device) ==
    LET indices == findQueueFamilies(device)
        extensionsSupported == checkDeviceExtensionSupport(device)
        swapChainAdequate ==
            IF extensionsSupported
            THEN LET swapChainSupport == querySwapChainSupport(device)
                 IN  swapChainSupport.formats # <<>> /\ swapChainSupport.presentModes # <<>>
            ELSE FALSE
    IN  isComplete(indices) /\ extensionsSupported /\ swapChainAdequate

(***************************************************************************)
(* The device loop of App::selectPhysicalDevice: the position (1-based) of *)
(* the device it selects, 0 when selectedPhysicalDevice stays null.        *)
(***************************************************************************)
\* a device loop without the break: the last suitable device wins
RECURSIVE selectLoopNoBreak(_, _)
selectLoopNoBreak(devices, k) ==
    IF k > Len(devices) THEN 0
    ELSE LET later == selectLoopNoBreak(devices, k + 1)
         IN  IF later # 0 THEN later
             ELSE IF isPhysicalDeviceSuitable(devices[k]) THEN k ELSE 0

RECURSIVE selectLoop(_, _)
selectLoop(devices, k) ==
    IF k > Len(devices) THEN 0
    ELSE IF isPhysicalDeviceSuitable(devices[k]) THEN k
    ELSE selectLoop(devices, k + 1)

\* App::selectPhysicalDevice as a function of the enumeration
selectPhysicalDeviceResult(devices) ==
    IF Len(devices) = 0
    THEN [error |-> "failed to find GPUs with Vulkan support!", selected |-> 0]
    ELSE LET k == selectLoop(devices, 1)
         IN  IF k = 0
             THEN [error |-> "failed to find a suitable GPU!", selected |-> 0]
             ELSE [error |-> "", selected |-> k]

(***************************************************************************)
(* App::selectSwapSurfaceFormat.  availableFormats[0] of an empty vector   *)
(* is an out-of-bounds read: the operator is applied to non-empty lists    *)
(* only.                                                                   *)
(***************************************************************************)
RECURSIVE selectSwapSurfaceFormatLoop(_, _)
selectSwapSurfaceFormatLoop(availableFormats, k) ==
    IF k > Len(availableFormats) THEN availableFormats[1]
    ELSE IF /\ availableFormats[k].format = VK_FORMAT_B8G8R8A8_SRGB
            /\ availableFormats[k].colorSpace = VK_COLOR_SPACE_SRGB_NONLINEAR_KHR
         THEN availableFormats[k]
         ELSE selectSwapSurfaceFormatLoop(availableFormats, k + 1)

\* a selection that compares the pixel format and forgets the color space
selectSwapSurfaceFormatNoColorSpace(availableFormats) ==
    IF \E k \in DOMAIN availableFormats : availableFormats[k].format = VK_FORMAT_B8G8R8A8_SRGB
    THEN availableFormats[CHOOSE k \in DOMAIN availableFormats :
             /\ availableFormats[k].format = VK_FORMAT_B8G8R8A8_SRGB
             /\ \A j \in 1..(k - 1) : availableFormats[j].format # VK_FORMAT_B8G8R8A8_SRGB]
    ELSE availableFormats[1]

selectSwapSurfaceFormat(availableFormats) ==
    selectSwapSurfaceFormatLoop(availableFormats, 1)

\* App::selectSwapPresentMode: the loop over availablePresentModes from entry k on
RECURSIVE selectSwapPresentModeLoop(_, _)
selectSwapPresentModeLoop(availablePresentModes, k) ==
    IF k > Len(availablePresentModes)
    THEN VK_PRESENT_MODE_FIFO_KHR
    ELSE IF availablePresentModes[k] = VK_PRESENT_MODE_MAILBOX_KHR
    THEN availablePresentModes[k]
    ELSE selectSwapPresentModeLoop(availablePresentModes, k + 1)

\* a selection that falls back to the first entry of the list, as the format selection does
selectSwapPresentModeFirstEntry(availablePresentModes) ==
    IF VK_PRESENT_MODE_MAILBOX_KHR \in Range(availablePresentModes)
    THEN VK_PRESENT_MODE_MAILBOX_KHR
    ELSE IF availablePresentModes # <<>>
    THEN availablePresentModes[1]
    ELSE VK_PRESENT_MODE_FIFO_KHR
selectSwapPresentMode(availablePresentModes) ==
    selectSwapPresentModeLoop(availablePresentModes, 1)

\* std::clamp(v, lo, hi)
clamp(v, lo, hi) == IF v < lo THEN lo ELSE IF hi < v THEN hi ELSE v

\* static_cast<uint32_t>(v) of an int
static_cast_uint32_t(v) == v % (UINT32_MAX + 1)

\* an extent selection that clamps the height into the bounds of the width
selectSwapExtentWidthBounds(capabilities, windowSize) ==
    IF capabilities.currentExtent.width # UINT32_MAX
    THEN capabilities.currentExtent
    ELSE [width |-> clamp(static_cast_uint32_t(windowSize.width),
                          capabilities.minImageExtent.width,
                          capabilities.maxImageExtent.width),
          height |-> clamp(static_cast_uint32_t(windowSize.height),
                           capabilities.minImageExtent.width,
                           capabilities.maxImageExtent.width)]
\* App::selectSwapExtent; windowSize is what glfwGetWindowSize reports
selectSwapExtent(capabilities, windowSize) ==
    IF capabilities.currentExtent.width # UINT32_MAX
    THEN capabilities.currentExtent
    ELSE [width |-> clamp(static_cast_uint32_t(windowSize.width),
                          capabilities.minImageExtent.width,
                          capabilities.maxImageExtent.width),
          height |-> clamp(static_cast_uint32_t(windowSize.height),
                           capabilities.minImageExtent.height,
                           capabilities.maxImageExtent.height)]

\* an image count that caps at maxImageCount without testing it for zero
swapImageCountAlwaysCapped(capabilities) ==
    LET imageCount == (capabilities.minImageCount + 1) % (UINT32_MAX + 1)
    IN  IF imageCount > capabilities.maxImageCount
        THEN capabilities.maxImageCount
        ELSE imageCount
\* the imageCount lambda of App::createSwapChain (uint32_t arithmetic)
swapImageCount(capabilities) ==
    LET imageCount == (capabilities.minImageCount + 1) % (UINT32_MAX + 1)
    IN  IF capabilities.maxImageCount > 0 /\ imageCount > capabilities.maxImageCount
        THEN capabilities.maxImageCount
        ELSE imageCount

\* a check that is satisfied as soon as the loader reports any layer
checkValidationLayerSupportAnyLayer(availableLayers) == availableLayers # <<>>
(***************************************************************************)
(* App::checkValidationLayerSupport over the layers the loader reports.    *)
(***************************************************************************)
checkValidationLayerSupport(availableLayers) ==
    \A n \in 1..Len(VALIDATION_LAYERS) :
        \E k \in 1..Len(availableLayers) : availableLayers[k] = VALIDATION_LAYERS[n]

\* flags & bit, for a bit that is a power of two
BitAnd(flags, bit) == IF (flags \div bit) % 2 = 1 THEN bit ELSE 0

\* a labelling that tests the warning bit before the error bit
messageSeverityToStringWarnFirst(messageSeverity) ==
    IF BitAnd(messageSeverity, VK_DEBUG_UTILS_MESSAGE_SEVERITY_WARNING_BIT_EXT) # 0
    THEN "WARN "
    ELSE IF BitAnd(messageSeverity, VK_DEBUG_UTILS_MESSAGE_SEVERITY_ERROR_BIT_EXT) # 0
    THEN "ERROR"
    ELSE "INFO "
\* App::messageSeverityToString
messageSeverityToString(messageSeverity) ==
    IF BitAnd(messageSeverity, VK_DEBUG_UTILS_MESSAGE_SEVERITY_ERROR_BIT_EXT) # 0
    THEN "ERROR"
    ELSE IF BitAnd(messageSeverity, VK_DEBUG_UTILS_MESSAGE_SEVERITY_WARNING_BIT_EXT) # 0
    THEN "WARN "
    ELSE "INFO "

\* App::debugCallback: the value it returns and the line it prints on std::cerr
debugCallback(messageSeverity, messageType, pMessage) ==
    [result |-> VK_FALSE,
     cerr |-> <<messageSeverityToString(messageSeverity), pMessage>>]

(***************************************************************************)
(* App::CreateDebugUtilsMessengerEXT: func is whether vkGetInstanceProcAddr*)
(* resolved the entry point, result what the entry point returns.          *)
(***************************************************************************)
CreateDebugUtilsMessengerEXT(func, result) ==
    IF func THEN result ELSE "VK_ERROR_EXTENSION_NOT_PRESENT"

\* the vkGetInstanceProcAddr lookup of the create entry point as a logged call:
\* 1 when it resolved, 0 when it returned nullptr
GetCreateProcAddr(func) ==
    <<"vkGetInstanceProcAddr(vkCreateDebugUtilsMessengerEXT)", IF func THEN 1 ELSE 0>>

\* the vkGetInstanceProcAddr lookup of the destroy entry point as a logged call:
\* 1 when it resolved, 0 when it returned nullptr
GetDestroyProcAddr(func) ==
    <<"vkGetInstanceProcAddr(vkDestroyDebugUtilsMessengerEXT)", IF func THEN 1 ELSE 0>>

\* an uninstaller that calls through the pointer without testing it
DestroyDebugUtilsMessengerEXTUnchecked(debugMessenger, func) ==
    << GetDestroyProcAddr(func), <<"vkDestroyDebugUtilsMessengerEXT", debugMessenger>> >>
\* App::DestroyDebugUtilsMessengerEXT: the calls it issues
DestroyDebugUtilsMessengerEXT(debugMessenger, func) ==
    << GetDestroyProcAddr(func) >>
    \o (IF func THEN << <<"vkDestroyDebugUtilsMessengerEXT", debugMessenger>> >> ELSE <<>>)

(***************************************************************************)
(* The environment of a full run.                                          *)
(***************************************************************************)
Family(g, p) == [graphics |-> g, present |-> p]
Extent(w, h) == [width |-> w, height |-> h]
SurfaceFormat(f, c) == [format |-> f, colorSpace |-> c]

PreferredFormat == SurfaceFormat(VK_FORMAT_B8G8R8A8_SRGB, VK_COLOR_SPACE_SRGB_NONLINEAR_KHR)
UnormFormat == SurfaceFormat(VK_FORMAT_B8G8R8A8_UNORM, VK_COLOR_SPACE_SRGB_NONLINEAR_KHR)
P3Format == SurfaceFormat(VK_FORMAT_B8G8R8A8_SRGB, VK_COLOR_SPACE_DISPLAY_P3_NONLINEAR_EXT)
UnormP3Format == SurfaceFormat(VK_FORMAT_B8G8R8A8_UNORM, VK_COLOR_SPACE_DISPLAY_P3_NONLINEAR_EXT)

CapsDefined ==
    [minImageCount |-> 2, maxImageCount |-> 0, currentExtent |-> Extent(WIDTH, HEIGHT),
     minImageExtent |-> Extent(WIDTH, HEIGHT), maxImageExtent |-> Extent(WIDTH, HEIGHT)]
CapsSentinel ==
    [minImageCount |-> 1, maxImageCount |-> 1, currentExtent |-> Extent(UINT32_MAX, UINT32_MAX),
     minImageExtent |-> Extent(1, 1), maxImageExtent |-> Extent(640, 480)]

Device(qf, ext, fmts, modes, caps) ==
    [queueFamilies |-> qf, extensions |-> ext, formats |-> fmts,
     presentModes |-> modes, capabilities |-> caps]

\* the devices a driver may report in a full run
DriverDevices ==
    { Device(<<Family(TRUE, TRUE)>>, <<VK_KHR_SWAPCHAIN_EXTENSION_NAME>>,
             <<UnormFormat, PreferredFormat>>, <<VK_PRESENT_MODE_FIFO_KHR>>, CapsDefined),
      Device(<<Family(TRUE, FALSE), Family(FALSE, TRUE)>>,
             <<VK_KHR_portability_subset, VK_KHR_SWAPCHAIN_EXTENSION_NAME>>,
             <<P3Format>>, <<VK_PRESENT_MODE_FIFO_KHR, VK_PRESENT_MODE_MAILBOX_KHR>>,
             CapsSentinel),
      Device(<<Family(TRUE, FALSE), Family(TRUE, TRUE)>>, <<VK_KHR_SWAPCHAIN_EXTENSION_NAME>>,
             <<PreferredFormat>>, <<VK_PRESENT_MODE_IMMEDIATE_KHR>>, CapsDefined),
      Device(<<Family(TRUE, FALSE)>>, <<VK_KHR_SWAPCHAIN_EXTENSION_NAME>>,
             <<PreferredFormat>>, <<VK_PRESENT_MODE_FIFO_KHR>>, CapsDefined),
      Device(<<Family(TRUE, TRUE)>>, <<VK_KHR_portability_subset>>,
             <<PreferredFormat>>, <<VK_PRESENT_MODE_FIFO_KHR>>, CapsDefined),
      Device(<<Family(TRUE, TRUE)>>, <<VK_KHR_SWAPCHAIN_EXTENSION_NAME>>,
             <<>>, <<VK_PRESENT_MODE_FIFO_KHR>>, CapsSentinel) }

\* what vkEnumerateInstanceLayerProperties may report
VK_LAYER_LUNARG_api_dump == "VK_LAYER_LUNARG_api_dump"
LayerLists == { <<>>, <<VK_LAYER_KHRONOS_validation>>, <<VK_LAYER_LUNARG_api_dump>>,
                <<VK_LAYER_LUNARG_api_dump, VK_LAYER_KHRONOS_validation>> }

VkResults == {"VK_SUCCESS", "VK_ERROR_INITIALIZATION_FAILED"}

(***************************************************************************)
(* The state after `auto app = App {};` in main: value-initialization      *)
(* zeroes every handle and leaves the vectors empty.                       *)
(***************************************************************************)
AppInit ==
    /\ m_window = VK_NULL_HANDLE
    /\ m_instance = VK_NULL_HANDLE
    /\ m_debugMessenger = VK_NULL_HANDLE
    /\ m_surface = VK_NULL_HANDLE
    /\ m_physicalDevice = VK_NULL_HANDLE
    /\ m_device = VK_NULL_HANDLE
    /\ m_graphicsQueue = <<>>
    /\ m_presentQueue = <<>>
    /\ m_swapChain = VK_NULL_HANDLE
    /\ m_swapChainImages = <<>>
    /\ m_swapChainImageFormat = ""
    /\ m_swapChainExtent = Extent(0, 0)
    /\ m_swapChainImageViews = <<>>
    /\ deviceCreateInfo = <<>>
    /\ swapChainCreateInfo = <<>>
    /\ calls = <<>>
    /\ polls = 0
    /\ what = ""
    /\ exitCode = NotExited

Init ==
    /\ pc = "createGLFWLibrary"
    /\ ENABLE_VALIDATION_LAYERS \in BOOLEAN
    /\ instanceLayers \in LayerLists
    /\ physicalDevices \in SeqsUpTo(DriverDevices, MaxDevices)
    /\ shouldClose = FALSE
    /\ AppInit
    /\ arg = <<>>
    /\ ret = <<>>

(***************************************************************************)
(* An exception leaves run() and is caught in main, which prints e.what()  *)
(* and returns EXIT_FAILURE.  Nothing else runs on that path.              *)
(***************************************************************************)
\* a run() that swallows the exception and goes on to the event loop
ThrowSwallowed(message) ==
    /\ pc' = "mainLoop"
    /\ what' = message
    /\ UNCHANGED exitCode

\* a main whose catch block returns EXIT_SUCCESS
ThrowExitSuccess(message) ==
    /\ pc' = "exited"
    /\ what' = message
    /\ exitCode' = EXIT_SUCCESS

Throw(message) ==
    /\ pc' = "exited"
    /\ what' = message
    /\ exitCode' = EXIT_FAILURE

Continue(next) ==
    /\ pc' = next
    /\ UNCHANGED <<what, exitCode>>

Issue(cs) == calls' = calls \o cs

\* App::createGLFWLibrary
createGLFWLibrary ==
    /\ pc = "createGLFWLibrary"
    /\ \E result \in BOOLEAN :
          IF ~result
          THEN Issue(<< <<"glfwTerminate", 0>> >>) /\ Throw("Failed to initialize GLFW")
          ELSE Issue(<< <<"glfwInit", 0>> >>) /\ Continue("createWindow")
    /\ UNCHANGED <<ENABLE_VALIDATION_LAYERS, instanceLayers, physicalDevices, shouldClose, appVars, polls, arg, ret>>

\* App::createWindow: the result of glfwCreateWindow is stored unchecked
createWindow ==
    /\ pc = "createWindow"
    /\ \E window \in {VK_NULL_HANDLE, 1} :
          /\ m_window' = window
          /\ Issue(IF window # VK_NULL_HANDLE THEN << <<"glfwCreateWindow", 1>> >> ELSE <<>>)
    /\ Continue("createInstance")
    /\ UNCHANGED <<ENABLE_VALIDATION_LAYERS, instanceLayers, physicalDevices, shouldClose, m_instance, m_debugMessenger,
                   m_surface, m_physicalDevice, m_device, m_graphicsQueue, m_presentQueue,
                   m_swapChain, m_swapChainImages, m_swapChainImageFormat, m_swapChainExtent,
                   m_swapChainImageViews, deviceCreateInfo, swapChainCreateInfo,
                   polls, arg, ret>>

\* App::createInstance
createInstance ==
    /\ pc = "createInstance"
    /\ \E result \in VkResults :
          IF ENABLE_VALIDATION_LAYERS /\ ~checkValidationLayerSupport(instanceLayers)
          THEN /\ Throw("validation layers requested, but not available!")
               /\ UNCHANGED <<m_instance, calls>>
          ELSE IF result # "VK_SUCCESS"
          THEN /\ Throw("failed to create instance!")
               /\ UNCHANGED <<m_instance, calls>>
          ELSE /\ m_instance' = 1
               /\ Issue(<< <<"vkCreateInstance", 1>> >>)
               /\ Continue("setupDebugMessenger")
    /\ UNCHANGED <<ENABLE_VALIDATION_LAYERS, instanceLayers, physicalDevices, shouldClose, m_window, m_debugMessenger,
                   m_surface, m_physicalDevice, m_device, m_graphicsQueue, m_presentQueue,
                   m_swapChain, m_swapChainImages, m_swapChainImageFormat, m_swapChainExtent,
                   m_swapChainImageViews, deviceCreateInfo, swapChainCreateInfo,
                   polls, arg, ret>>

\* App::setupDebugMessenger
setupDebugMessenger ==
    /\ pc = "setupDebugMessenger"
    /\ IF ENABLE_VALIDATION_LAYERS
       THEN \E func \in BOOLEAN, driverResult \in VkResults :
               LET result == CreateDebugUtilsMessengerEXT(func, driverResult)
               IN  IF result # "VK_SUCCESS"
                   THEN /\ Throw("failed to set up debug messenger!")
                        /\ Issue(<< GetCreateProcAddr(func) >>)
                        /\ UNCHANGED m_debugMessenger
                   ELSE /\ m_debugMessenger' = 1
                        /\ Issue(<< GetCreateProcAddr(func),
                                    <<"vkCreateDebugUtilsMessengerEXT", 1>> >>)
                        /\ Continue("createSurface")
       ELSE /\ Continue("createSurface")
            /\ UNCHANGED <<m_debugMessenger, calls>>
    /\ UNCHANGED <<ENABLE_VALIDATION_LAYERS, instanceLayers, physicalDevices, shouldClose, m_window, m_instance,
                   m_surface, m_physicalDevice, m_device, m_graphicsQueue, m_presentQueue,
                   m_swapChain, m_swapChainImages, m_swapChainImageFormat, m_swapChainExtent,
                   m_swapChainImageViews, deviceCreateInfo, swapChainCreateInfo,
                   polls, arg, ret>>

(***************************************************************************)
(* App::createSurface.  With a null window glfwCreateWindowSurface is      *)
(* called outside its contract: it reports an error or the process dies.   *)
(***************************************************************************)
createSurface ==
    /\ pc = "createSurface"
    /\ \E result \in VkResults, dies \in BOOLEAN :
          IF m_window = VK_NULL_HANDLE /\ dies
          THEN /\ pc' = "exited"
               /\ exitCode' = KilledBySignal
               /\ UNCHANGED <<what, m_surface, calls>>
          ELSE IF m_window = VK_NULL_HANDLE \/ result # "VK_SUCCESS"
          THEN /\ Throw("failed to create window surface!")
               /\ UNCHANGED <<m_surface, calls>>
          ELSE /\ m_surface' = 1
               /\ Issue(<< <<"glfwCreateWindowSurface", 1>> >>)
               /\ Continue("selectPhysicalDevice")
    /\ UNCHANGED <<ENABLE_VALIDATION_LAYERS, instanceLayers, physicalDevices, shouldClose, m_window, m_instance,
                   m_debugMessenger, m_physicalDevice, m_device, m_graphicsQueue,
                   m_presentQueue, m_swapChain, m_swapChainImages, m_swapChainImageFormat,
                   m_swapChainExtent, m_swapChainImageViews, deviceCreateInfo,
                   swapChainCreateInfo, polls, arg, ret>>

\* App::selectPhysicalDevice; a device's handle is its position in the enumeration
selectPhysicalDevice ==
    /\ pc = "selectPhysicalDevice"
    /\ LET r == selectPhysicalDeviceResult(physicalDevices)
       IN  IF r.error # ""
           THEN Throw(r.error) /\ UNCHANGED m_physicalDevice
           ELSE m_physicalDevice' = r.selected /\ Continue("createLogicalDevice")
    /\ UNCHANGED <<ENABLE_VALIDATION_LAYERS, instanceLayers, physicalDevices, shouldClose, m_window, m_instance,
                   m_debugMessenger, m_surface, m_device, m_graphicsQueue, m_presentQueue,
                   m_swapChain, m_swapChainImages, m_swapChainImageFormat, m_swapChainExtent,
                   m_swapChainImageViews, deviceCreateInfo, swapChainCreateInfo,
                   calls, polls, arg, ret>>

\* the elements of a std::set<uint32_t> in iteration (ascending) order
RECURSIVE Ascending(_)
Ascending(S) ==
    IF S = {} THEN <<>>
    ELSE LET m == CHOOSE x \in S : \A y \in S : x <= y
         IN  <<m>> \o Ascending(S \ {m})

\* a queueCreateInfos vector with one entry per role, equal families or not
queueCreateInfosPerRole(indices) ==
    LET queueFamilies == <<value(indices.graphicsFamily), value(indices.presentFamily)>>
    IN  [k \in 1..Len(queueFamilies) |->
            [queueFamilyIndex |-> queueFamilies[k], queueCount |-> 1]]
\* the queueCreateInfos vector of App::createLogicalDevice
queueCreateInfosOf(indices) ==
    LET uniqueQueueFamilies == Ascending({value(indices.graphicsFamily),
                                          value(indices.presentFamily)})
    IN  [k \in 1..Len(uniqueQueueFamilies) |->
            [queueFamilyIndex |-> uniqueQueueFamilies[k], queueCount |-> 1]]

\* the enabledExtensions vector of App::createLogicalDevice
enabledExtensions == <<VK_KHR_portability_subset>> \o DEVICE_EXTENSIONS

\* App::createLogicalDevice; std::optional::value() throws on an absent value
createLogicalDevice ==
    /\ pc = "createLogicalDevice"
    /\ LET indices == findQueueFamilies(physicalDevices[m_physicalDevice])
       IN  \E result \in VkResults :
              IF ~isComplete(indices)
              THEN /\ Throw("bad optional access")
                   /\ UNCHANGED <<m_device, m_graphicsQueue, m_presentQueue,
                                  deviceCreateInfo, calls>>
              ELSE IF result # "VK_SUCCESS"
              THEN /\ Throw("failed to create logical device!")
                   /\ deviceCreateInfo' =
                          [queueCreateInfos |-> queueCreateInfosOf(indices),
                           enabledExtensionNames |-> enabledExtensions]
                   /\ UNCHANGED <<m_device, m_graphicsQueue, m_presentQueue, calls>>
              ELSE /\ deviceCreateInfo' =
                          [queueCreateInfos |-> queueCreateInfosOf(indices),
                           enabledExtensionNames |-> enabledExtensions]
                   /\ m_device' = 1
                   /\ m_graphicsQueue' = <<value(indices.graphicsFamily), 0>>
                   /\ m_presentQueue' = <<value(indices.presentFamily), 0>>
                   /\ Issue(<< <<"vkCreateDevice", 1>> >>)
                   /\ Continue("createSwapChain")
    /\ UNCHANGED <<ENABLE_VALIDATION_LAYERS, instanceLayers, physicalDevices, shouldClose, m_window, m_instance,
                   m_debugMessenger, m_surface, m_physicalDevice, m_swapChain,
                   m_swapChainImages, m_swapChainImageFormat, m_swapChainExtent,
                   m_swapChainImageViews, swapChainCreateInfo, polls, arg, ret>>

\* the imageSharingMode lambda of App::createSwapChain
imageSharingModeOf(indices) ==
    IF indices.graphicsFamily # indices.presentFamily
    THEN VK_SHARING_MODE_CONCURRENT
    ELSE VK_SHARING_MODE_EXCLUSIVE

\* a family list that names both roles whatever the sharing mode
queueFamilyIndicesAlways(indices) ==
    <<value(indices.graphicsFamily), value(indices.presentFamily)>>
\* the queueFamilyIndicesPtr / queueFamilyIndexCount lambda of App::createSwapChain:
\* the entries the driver is given, none for a null pointer and a count of 0
queueFamilyIndicesOf(indices) ==
    IF indices.graphicsFamily # indices.presentFamily
    THEN <<value(indices.graphicsFamily), value(indices.presentFamily)>>
    ELSE <<>>

\* the VkSwapchainCreateInfoKHR App::createSwapChain builds for a device
swapChainCreateInfoOf(device, windowSize) ==
    LET swapChainSupport == querySwapChainSupport(device)
        surfaceFormat == selectSwapSurfaceFormat(swapChainSupport.formats)
        indices == findQueueFamilies(device)
    IN  [minImageCount |-> swapImageCount(swapChainSupport.capabilities),
         imageFormat |-> surfaceFormat.format,
         imageColorSpace |-> surfaceFormat.colorSpace,
         imageExtent |-> selectSwapExtent(swapChainSupport.capabilities, windowSize),
         imageSharingMode |-> imageSharingModeOf(indices),
         queueFamilyIndices |-> queueFamilyIndicesOf(indices),
         presentMode |-> selectSwapPresentMode(swapChainSupport.presentModes)]

(***************************************************************************)
(* App::createSwapChain.  The driver allocates at least the requested      *)
(* number of images; the handles it reports are 1..n.                      *)
(***************************************************************************)
createSwapChain ==
    /\ pc = "createSwapChain"
    /\ LET device == physicalDevices[m_physicalDevice]
           createInfo == swapChainCreateInfoOf(device, Extent(WIDTH, HEIGHT))
       IN  \E result \in VkResults, extra \in 0..MaxExtraImages :
              IF ~isComplete(findQueueFamilies(device))
              THEN /\ Throw("bad optional access")
                   /\ UNCHANGED <<m_swapChain, m_swapChainImages, m_swapChainImageFormat,
                                  m_swapChainExtent, swapChainCreateInfo, calls>>
              ELSE IF result # "VK_SUCCESS"
              THEN /\ Throw("failed to create swap chain!")
                   /\ swapChainCreateInfo' = createInfo
                   /\ UNCHANGED <<m_swapChain, m_swapChainImages, m_swapChainImageFormat,
                                  m_swapChainExtent, calls>>
              ELSE /\ swapChainCreateInfo' = createInfo
                   /\ m_swapChain' = 1
                   /\ m_swapChainImages' = [k \in 1..(createInfo.minImageCount + extra) |-> k]
                   /\ m_swapChainImageFormat' = createInfo.imageFormat
                   /\ m_swapChainExtent' = createInfo.imageExtent
                   /\ Issue(<< <<"vkCreateSwapchainKHR", 1>> >>)
                   /\ Continue("createImageViews")
    /\ UNCHANGED <<ENABLE_VALIDATION_LAYERS, instanceLayers, physicalDevices, shouldClose, m_window, m_instance,
                   m_debugMessenger, m_surface, m_physicalDevice, m_device, m_graphicsQueue,
                   m_presentQueue, m_swapChainImageViews, deviceCreateInfo, polls, arg, ret>>

\* the vkCreateImageView calls that succeeded for images[1..n]; a view's handle is its image's
createdImageViews(images, n) == [k \in 1..n |-> <<"vkCreateImageView", images[k]>>]

\* a loop that leaves the last element of the vector as it was constructed
imageViewsOfSkipLast(images) ==
    [k \in 1..Len(images) |-> IF k < Len(images) THEN images[k] ELSE VK_NULL_HANDLE]
\* the swapChainImageViews vector of App::createImageViews once its loop has finished:
\* as long as the images, element k the view created from image k
imageViewsOf(images) == [k \in 1..Len(images) |-> images[k]]

(***************************************************************************)
(* App::createImageViews.  failAt is the position of the first image whose *)
(* vkCreateImageView fails, 0 when none does.  The views live in a local   *)
(* vector that becomes m_swapChainImageViews only after the loop.          *)
(***************************************************************************)
createImageViews ==
    /\ pc = "createImageViews"
    /\ \E failAt \in 0..Len(m_swapChainImages) :
          IF failAt # 0
          THEN /\ Issue(createdImageViews(m_swapChainImages, failAt - 1))
               /\ Throw("failed to create image views!")
               /\ UNCHANGED m_swapChainImageViews
          ELSE /\ Issue(createdImageViews(m_swapChainImages, Len(m_swapChainImages)))
               /\ m_swapChainImageViews' = imageViewsOf(m_swapChainImages)
               /\ Continue("mainLoop")
    /\ UNCHANGED <<ENABLE_VALIDATION_LAYERS, instanceLayers, physicalDevices, shouldClose, m_window, m_instance,
                   m_debugMessenger, m_surface, m_physicalDevice, m_device, m_graphicsQueue,
                   m_presentQueue, m_swapChain, m_swapChainImages, m_swapChainImageFormat,
                   m_swapChainExtent, deviceCreateInfo, swapChainCreateInfo, polls, arg, ret>>

(***************************************************************************)
(* App::mainLoop.  One iteration: glfwWindowShouldClose reported false and *)
(* glfwPollEvents processes the pending events, a close request among them *)
(* or not.  The exit: glfwWindowShouldClose reports true.                  *)
(***************************************************************************)
mainLoopPoll ==
    /\ pc = "mainLoop"
    /\ ~shouldClose
    /\ polls < MaxPolls
    /\ polls' = polls + 1
    /\ shouldClose' \in BOOLEAN
    /\ UNCHANGED <<pc, ENABLE_VALIDATION_LAYERS, instanceLayers, physicalDevices, appVars,
                   calls, what, exitCode, arg, ret>>

\* a loop that is left whatever glfwWindowShouldClose reports
mainLoopCloseUntested ==
    /\ pc = "mainLoop"
    /\ pc' = "cleanup"
    /\ UNCHANGED <<ENABLE_VALIDATION_LAYERS, instanceLayers, physicalDevices, shouldClose,
                   appVars, calls, polls, what, exitCode, arg, ret>>
mainLoopClose ==
    /\ pc = "mainLoop"
    /\ shouldClose
    /\ pc' = "cleanup"
    /\ UNCHANGED <<ENABLE_VALIDATION_LAYERS, instanceLayers, physicalDevices, shouldClose,
                   appVars, calls, polls, what, exitCode, arg, ret>>

\* a loop that stops one view short
destroyImageViewsSkipLast(imageViews) ==
    [k \in 1..(Len(imageViews) - 1) |-> <<"vkDestroyImageView", imageViews[k]>>]

\* the vkDestroyImageView loop of App::cleanup
destroyImageViews(imageViews) ==
    [k \in 1..Len(imageViews) |-> <<"vkDestroyImageView", imageViews[k]>>]

\* a cleanup in strict reverse creation order: the surface before the messenger
cleanupCallsSurfaceFirst(imageViews, swapChain, device, debugMessenger, surface, instance, window, validation, func) ==
    destroyImageViews(imageViews)
    \o << <<"vkDestroySwapchainKHR", swapChain>>, <<"vkDestroyDevice", device>>,
          <<"vkDestroySurfaceKHR", surface>> >>
    \o (IF validation THEN DestroyDebugUtilsMessengerEXT(debugMessenger, func) ELSE <<>>)
    \o << <<"vkDestroyInstance", instance>>,
          <<"glfwDestroyWindow", window>>, <<"glfwTerminate", 0>> >>

\* a cleanup that destroys the device before the swapchain
cleanupCallsDeviceFirst(imageViews, swapChain, device, debugMessenger, surface, instance, window, validation, func) ==
    destroyImageViews(imageViews)
    \o << <<"vkDestroyDevice", device>>, <<"vkDestroySwapchainKHR", swapChain>> >>
    \o (IF validation THEN DestroyDebugUtilsMessengerEXT(debugMessenger, func) ELSE <<>>)
    \o << <<"vkDestroySurfaceKHR", surface>>, <<"vkDestroyInstance", instance>>,
          <<"glfwDestroyWindow", window>>, <<"glfwTerminate", 0>> >>

(***************************************************************************)
(* The calls App::cleanup issues, in its order; func is whether the        *)
(* messenger's destroy entry point resolves.  The handles are passed as    *)
(* they are: cleanup tests none of them.                                   *)
(***************************************************************************)
cleanupCalls(imageViews, swapChain, device, debugMessenger, surface, instance, window, validation, func) ==
    destroyImageViews(imageViews)
    \o << <<"vkDestroySwapchainKHR", swapChain>>, <<"vkDestroyDevice", device>> >>
    \o (IF validation THEN DestroyDebugUtilsMessengerEXT(debugMessenger, func) ELSE <<>>)
    \o << <<"vkDestroySurfaceKHR", surface>>, <<"vkDestroyInstance", instance>>,
          <<"glfwDestroyWindow", window>>, <<"glfwTerminate", 0>> >>

\* App::cleanup, then run() returns and main returns EXIT_SUCCESS
cleanup ==
    /\ pc = "cleanup"
    /\ \E func \in BOOLEAN :
          Issue(cleanupCalls(m_swapChainImageViews, m_swapChain, m_device, m_debugMessenger,
                             m_surface, m_instance, m_window,
                             ENABLE_VALIDATION_LAYERS, func))
    /\ pc' = "exited"
    /\ exitCode' = EXIT_SUCCESS
    /\ UNCHANGED <<ENABLE_VALIDATION_LAYERS, instanceLayers, physicalDevices, shouldClose, appVars, polls,
                   what, arg, ret>>

\* App::initVulkan
initVulkan ==
    \/ createInstance
    \/ setupDebugMessenger
    \/ createSurface
    \/ selectPhysicalDevice
    \/ createLogicalDevice
    \/ createSwapChain
    \/ createImageViews

\* App::mainLoop
mainLoop == mainLoopPoll \/ mainLoopClose

\* App::run
run ==
    \/ createGLFWLibrary
    \/ createWindow
    \/ initVulkan
    \/ mainLoop
    \/ cleanup

Next == run

Spec == Init /\ [][Next]_vars

\* The one thread of the program does not stop by itself: whenever it has a next step it
\* takes it.  Whether a close request ever arrives is left to the windowing layer.
SpecFair == Spec /\ WF_vars(Next)

(***************************************************************************)
(* Reading the call log: the owned Vulkan resources, by kind.              *)
(***************************************************************************)
Kinds == <<"instance", "debugMessenger", "surface", "device", "swapChain", "imageView">>

CreateFn(kind) ==
    CASE kind = "instance" -> "vkCreateInstance"
      [] kind = "debugMessenger" -> "vkCreateDebugUtilsMessengerEXT"
      [] kind = "surface" -> "glfwCreateWindowSurface"
      [] kind = "device" -> "vkCreateDevice"
      [] kind = "swapChain" -> "vkCreateSwapchainKHR"
      [] kind = "imageView" -> "vkCreateImageView"

DestroyFn(kind) ==
    CASE kind = "instance" -> "vkDestroyInstance"
      [] kind = "debugMessenger" -> "vkDestroyDebugUtilsMessengerEXT"
      [] kind = "surface" -> "vkDestroySurfaceKHR"
      [] kind = "device" -> "vkDestroyDevice"
      [] kind = "swapChain" -> "vkDestroySwapchainKHR"
      [] kind = "imageView" -> "vkDestroyImageView"

KindSet == Range(Kinds)
IsCreate(c) == \E kind \in KindSet : c[1] = CreateFn(kind)
IsDestroy(c) == \E kind \in KindSet : c[1] = DestroyFn(kind)
KindOf(c) == CHOOSE kind \in KindSet : c[1] \in {CreateFn(kind), DestroyFn(kind)}

\* positions in the log where resource <<kind, h>> is created / destroyed
CreatedAt(kind, h) == {i \in DOMAIN calls : calls[i] = <<CreateFn(kind), h>>}
DestroyedAt(kind, h) == {i \in DOMAIN calls : calls[i] = <<DestroyFn(kind), h>>}

\* the resources the log creates, and those it names in a destroy call
Resources == {<<KindOf(calls[i]), calls[i][2]>> : i \in {j \in DOMAIN calls : IsCreate(calls[j])}}
DestroyTargets == {<<KindOf(calls[i]), calls[i][2]>> : i \in {j \in DOMAIN calls : IsDestroy(calls[j])}}

\* a sequence of kinds with runs of the same kind collapsed (the image views are one group)
RECURSIVE Collapse(_)
Collapse(s) ==
    IF Len(s) <= 1 THEN s
    ELSE IF s[1] = s[2] THEN Collapse(Tail(s))
    ELSE <<s[1]>> \o Collapse(Tail(s))

RECURSIVE Reverse(_)
Reverse(s) == IF s = <<>> THEN <<>> ELSE Reverse(Tail(s)) \o <<s[1]>>

KindsOfCalls(cs) == [i \in DOMAIN cs |-> KindOf(cs[i])]
CreationOrder == Collapse(KindsOfCalls(SelectSeq(calls, IsCreate)))
DestructionOrder == Collapse(KindsOfCalls(SelectSeq(calls, IsDestroy)))

\* the creations and destructions as they appear resource by resource
CreationSeq == SelectSeq(calls, IsCreate)
DestructionSeq == SelectSeq(calls, IsDestroy)
AsResources(cs) == [i \in DOMAIN cs |-> <<KindOf(cs[i]), cs[i][2]>>]

InitFailures ==
    { "validation layers requested, but not available!",
      "failed to create instance!",
      "failed to set up debug messenger!",
      "failed to create window surface!",
      "failed to find GPUs with Vulkan support!",
      "failed to find a suitable GPU!",
      "failed to create logical device!",
      "failed to create swap chain!",
      "failed to create image views!" }

InitFailed == pc = "exited" /\ what \in InitFailures
CleanShutdown == pc = "exited" /\ exitCode = EXIT_SUCCESS
DestroyLookupResolved ==
    \E i \in DOMAIN calls : calls[i] = GetDestroyProcAddr(TRUE)

(***************************************************************************)
(* C1.  If an initialization step fails, then by the time the process has  *)
(* exited every resource the earlier steps created has been destroyed      *)
(* exactly once, and the destructions are in reverse creation order.       *)
(***************************************************************************)
C1_TeardownOnInitFailure ==
    InitFailed =>
        /\ \A r \in Resources : Cardinality(DestroyedAt(r[1], r[2])) = 1
        /\ AsResources(DestructionSeq) = Reverse(AsResources(CreationSeq))

Dependencies ==
    { <<"imageView", "swapChain">>, <<"swapChain", "device">>, <<"device", "instance">>,
      <<"surface", "instance">> }

DestroyedBefore(deps) ==
    \A j \in DOMAIN calls :
        IsDestroy(calls[j]) =>
            \A i \in 1..(j - 1) :
                (IsCreate(calls[i]) /\ <<KindOf(calls[i]), KindOf(calls[j])>> \in deps)
                    => \E m \in (i + 1)..(j - 1) :
                          calls[m] = <<DestroyFn(KindOf(calls[i])), calls[i][2]>>

\* C3 as claimed: the messenger too is always destroyed before the instance
C3_NoDestroyWhileDependentAlive ==
    DestroyedBefore(Dependencies \cup {<<"debugMessenger", "instance">>})

(***************************************************************************)
(* C3, amended.  Image views are destroyed before the swapchain, the       *)
(* swapchain before the device, the device and the surface before the      *)
(* instance; the messenger is destroyed before the instance when its       *)
(* destroy entry point resolves, and when it does not the messenger is     *)
(* never destroyed and is still installed when the instance is destroyed.  *)
(***************************************************************************)
C3_DependencyOrder ==
    /\ DestroyedBefore(Dependencies)
    /\ \A j \in DOMAIN calls :
          calls[j][1] = "vkDestroyInstance" /\ CreatedAt("debugMessenger", 1) # {} =>
              \/ \E m \in 1..(j - 1) : calls[m] = <<"vkDestroyDebugUtilsMessengerEXT", 1>>
              \/ /\ \E m \in 1..(j - 1) : calls[m] = GetDestroyProcAddr(FALSE)
                 /\ DestroyedAt("debugMessenger", 1) = {}

C3_Witness ==
    /\ CleanShutdown
    /\ DestroyedAt("debugMessenger", 1) # {}
    /\ DestroyedAt("instance", 1) # {}

(***************************************************************************)
(* C4.  In every run that reaches clean shutdown each owned resource is    *)
(* created exactly once and destroyed exactly once, no destroy call names  *)
(* a resource that was not created, and without diagnostics the messenger  *)
(* is neither created nor destroyed.                                       *)
(***************************************************************************)
OwnedResources ==
    {<<"instance", 1>>, <<"surface", 1>>, <<"device", 1>>, <<"swapChain", 1>>}
    \cup (IF ENABLE_VALIDATION_LAYERS THEN {<<"debugMessenger", 1>>} ELSE {})
    \cup {<<"imageView", m_swapChainImages[k]>> : k \in DOMAIN m_swapChainImages}

\* C4 as claimed
C4_CreatedOnceDestroyedOnce ==
    CleanShutdown =>
        /\ Resources = OwnedResources
        /\ \A r \in OwnedResources :
              /\ Cardinality(CreatedAt(r[1], r[2])) = 1
              /\ Cardinality(DestroyedAt(r[1], r[2])) = 1
        /\ DestroyTargets \subseteq Resources

(***************************************************************************)
(* C4, amended.  As C4, except that the messenger is destroyed exactly     *)
(* once when its destroy entry point resolves and not at all when it does  *)
(* not.                                                                    *)
(***************************************************************************)
C4_Lifecycle ==
    CleanShutdown =>
        /\ Resources = OwnedResources
        /\ \A r \in OwnedResources :
              /\ Cardinality(CreatedAt(r[1], r[2])) = 1
              /\ Cardinality(DestroyedAt(r[1], r[2])) =
                    IF r[1] = "debugMessenger" /\ ~DestroyLookupResolved THEN 0 ELSE 1
        /\ DestroyTargets \subseteq Resources
        /\ ~ENABLE_VALIDATION_LAYERS =>
              CreatedAt("debugMessenger", 1) \cup DestroyedAt("debugMessenger", 1) = {}

C4_Witness ==
    /\ CleanShutdown
    /\ ~ENABLE_VALIDATION_LAYERS
    /\ Cardinality(OwnedResources) >= 6

(***************************************************************************)
(* C5.  The initialization steps run only in the order instance,           *)
(* messenger, surface, physical-device selection, logical device,          *)
(* swapchain, image views; a step starts only if every earlier step        *)
(* succeeded, the first failing step prevents every later one, and the     *)
(* event loop is entered only if all steps succeeded.                      *)
(***************************************************************************)
Steps ==
    <<"createGLFWLibrary", "createWindow", "createInstance", "setupDebugMessenger",
      "createSurface", "selectPhysicalDevice", "createLogicalDevice", "createSwapChain",
      "createImageViews", "mainLoop", "cleanup", "exited">>

StepNo(step) == CHOOSE k \in DOMAIN Steps : Steps[k] = step

\* the step an error message comes from
FailedStep(message) ==
    CASE message = "Failed to initialize GLFW" -> "createGLFWLibrary"
      [] message \in {"validation layers requested, but not available!",
                      "failed to create instance!"} -> "createInstance"
      [] message = "failed to set up debug messenger!" -> "setupDebugMessenger"
      [] message = "failed to create window surface!" -> "createSurface"
      [] message \in {"failed to find GPUs with Vulkan support!",
                      "failed to find a suitable GPU!"} -> "selectPhysicalDevice"
      [] message = "failed to create logical device!" -> "createLogicalDevice"
      [] message = "failed to create swap chain!" -> "createSwapChain"
      [] message = "failed to create image views!" -> "createImageViews"

\* what the steps before `step` create when each of them succeeds, in order
CreatedBefore(step) ==
    LET n == StepNo(step)
    IN  (IF n > StepNo("createInstance") THEN <<"instance">> ELSE <<>>)
        \o (IF n > StepNo("setupDebugMessenger") /\ ENABLE_VALIDATION_LAYERS
            THEN <<"debugMessenger">> ELSE <<>>)
        \o (IF n > StepNo("createSurface") THEN <<"surface">> ELSE <<>>)
        \o (IF n > StepNo("createLogicalDevice") THEN <<"device">> ELSE <<>>)
        \o (IF n > StepNo("createSwapChain") THEN <<"swapChain">> ELSE <<>>)
        \o (IF n > StepNo("createImageViews") THEN <<"imageView">> ELSE <<>>)

\* the image views created are one per swapchain image
AllImageViewsCreated ==
    /\ m_swapChainImages # <<>>
    /\ \A k \in DOMAIN m_swapChainImages :
          CreatedAt("imageView", m_swapChainImages[k]) # {}

StepsInOrder ==
    /\ pc \notin {"exited"} =>
          /\ CreationOrder = CreatedBefore(pc)
          /\ what = ""
          /\ (StepNo(pc) > StepNo("selectPhysicalDevice")) = (m_physicalDevice # VK_NULL_HANDLE)
    /\ pc \in {"mainLoop", "cleanup"} => AllImageViewsCreated
    /\ (pc = "exited" /\ what # "" /\ what # "failed to create image views!") =>
          /\ CreationOrder = CreatedBefore(FailedStep(what))
          /\ (m_physicalDevice # VK_NULL_HANDLE) =
                (StepNo(FailedStep(what)) > StepNo("selectPhysicalDevice"))
    /\ (pc = "exited" /\ what = "failed to create image views!") =>
          /\ CreationOrder \in {CreatedBefore("createImageViews"), CreatedBefore("mainLoop")}
          /\ ~AllImageViewsCreated

\* control moves to the next step or out of the program, never back or ahead
StepsAdvance ==
    pc' # pc => \/ pc' = "exited"
                \/ StepNo(pc') = StepNo(pc) + 1

C5_InitializationOrder == []StepsInOrder /\ [][StepsAdvance]_vars

C5_Witness ==
    /\ pc = "exited"
    /\ what = "failed to create logical device!"
    /\ CreationOrder = CreatedBefore("createLogicalDevice")
    /\ ENABLE_VALIDATION_LAYERS

(***************************************************************************)
(* C6.  The process exits with code 0 if and only if the run initialized   *)
(* fully and shut down cleanly; a failure of any initialization step,      *)
(* glfwInit included, yields a non-zero exit code.                         *)
(***************************************************************************)
InitializedFully == CreationOrder = CreatedBefore("mainLoop") /\ AllImageViewsCreated

CleanupRan ==
    /\ calls # <<>>
    /\ calls[Len(calls)] = <<"glfwTerminate", 0>>
    /\ DestroyedAt("instance", 1) # {}

C6_ExitCode ==
    /\ pc # "exited" => exitCode = NotExited
    /\ pc = "exited" =>
          /\ exitCode # NotExited
          /\ (exitCode = EXIT_SUCCESS) = (what = "" /\ InitializedFully /\ CleanupRan)
          /\ what # "" => exitCode # EXIT_SUCCESS

C6_Witness ==
    /\ pc = "exited"
    /\ what = "Failed to initialize GLFW"
    /\ exitCode = EXIT_FAILURE

(***************************************************************************)
(* Unit checks: a function of the program applied to one argument drawn    *)
(* from a bounded set, outside a run.                                      *)
(***************************************************************************)
Families == {Family(g, p) : g \in BOOLEAN, p \in BOOLEAN}
Formats == {PreferredFormat, UnormFormat, P3Format, UnormP3Format}

UnitInit(fn, arguments) ==
    /\ pc = fn
    /\ arg \in arguments
    /\ ret = <<>>
    /\ ENABLE_VALIDATION_LAYERS = FALSE
    /\ instanceLayers = <<>>
    /\ physicalDevices = <<>>
    /\ shouldClose = FALSE
    /\ AppInit

UnitCall(fn, result) ==
    /\ pc = fn
    /\ ret' = result
    /\ pc' = "returned"
    /\ UNCHANGED <<ENABLE_VALIDATION_LAYERS, instanceLayers, physicalDevices, shouldClose, appVars, calls, polls, what,
                   exitCode, arg>>

\* findQueueFamilies on a device with any queue families
QueueFamilyDevices ==
    {Device(qf, <<>>, <<>>, <<>>, CapsDefined) : qf \in SeqsUpTo(Families, MaxFamilies)}
InitFindQueueFamilies == UnitInit("findQueueFamilies", QueueFamilyDevices)
callFindQueueFamilies == UnitCall("findQueueFamilies", findQueueFamilies(arg))
SpecFindQueueFamilies == InitFindQueueFamilies /\ [][callFindQueueFamilies]_vars

\* isPhysicalDeviceSuitable on any device
CandidateDevices ==
    {Device(qf, ext, fmts, modes, CapsDefined) :
        qf \in SeqsUpTo(Families, MaxFamilies),
        ext \in SeqsUpTo({VK_KHR_SWAPCHAIN_EXTENSION_NAME, VK_KHR_portability_subset},
                         MaxSupport),
        fmts \in SeqsUpTo({PreferredFormat, UnormFormat}, MaxSupport),
        modes \in SeqsUpTo({VK_PRESENT_MODE_FIFO_KHR, VK_PRESENT_MODE_MAILBOX_KHR},
                           MaxSupport)}
InitIsPhysicalDeviceSuitable == UnitInit("isPhysicalDeviceSuitable", CandidateDevices)
callIsPhysicalDeviceSuitable ==
    UnitCall("isPhysicalDeviceSuitable", isPhysicalDeviceSuitable(arg))
SpecIsPhysicalDeviceSuitable ==
    InitIsPhysicalDeviceSuitable /\ [][callIsPhysicalDeviceSuitable]_vars

\* selectSwapSurfaceFormat on any non-empty list of formats
FormatLists == SeqsUpTo(Formats, MaxFormats) \ {<<>>}
InitSelectSwapSurfaceFormat == UnitInit("selectSwapSurfaceFormat", FormatLists)
callSelectSwapSurfaceFormat ==
    UnitCall("selectSwapSurfaceFormat", selectSwapSurfaceFormat(arg))
SpecSelectSwapSurfaceFormat ==
    InitSelectSwapSurfaceFormat /\ [][callSelectSwapSurfaceFormat]_vars

(***************************************************************************)
(* C7.  findQueueFamilies returns as graphicsFamily the first (lowest)     *)
(* index whose flags include graphics and as presentFamily the first       *)
(* index with present support, each determined independently of the        *)
(* other, and leaves an index absent only when no family has the           *)
(* capability.                                                             *)
(***************************************************************************)
FirstIndex(flags) ==
    IF \E k \in DOMAIN flags : flags[k]
    THEN <<(CHOOSE k \in DOMAIN flags : flags[k] /\ \A j \in 1..(k - 1) : ~flags[j]) - 1>>
    ELSE nullopt

GraphicsFlags(device) == [k \in DOMAIN device.queueFamilies |-> device.queueFamilies[k].graphics]
PresentFlags(device) == [k \in DOMAIN device.queueFamilies |-> device.queueFamilies[k].present]

C7_FirstIndices ==
    (pc = "returned") =>
        /\ ret.graphicsFamily = FirstIndex(GraphicsFlags(arg))
        /\ ret.presentFamily = FirstIndex(PresentFlags(arg))

(***************************************************************************)
(* C8.  isPhysicalDeviceSuitable is true if and only if the device has a   *)
(* graphics family and a present family (both indices present), its        *)
(* extensions include every required device extension, and it reports at   *)
(* least one surface format and at least one present mode.                 *)
(***************************************************************************)
IndicesPresent(device) ==
    /\ \E k \in DOMAIN device.queueFamilies : device.queueFamilies[k].graphics
    /\ \E k \in DOMAIN device.queueFamilies : device.queueFamilies[k].present
ExtensionsPresent(device) == Range(DEVICE_EXTENSIONS) \subseteq Range(device.extensions)
SwapChainPresent(device) == Len(device.formats) >= 1 /\ Len(device.presentModes) >= 1

C8_Suitability ==
    (pc = "returned") =>
        ret = (IndicesPresent(arg) /\ ExtensionsPresent(arg) /\ SwapChainPresent(arg))

C8_Witness ==
    /\ pc = "returned"
    /\ ret = FALSE
    /\ IndicesPresent(arg)
    /\ ExtensionsPresent(arg)
    /\ arg.formats = <<>>
    /\ arg.presentModes # <<>>

(***************************************************************************)
(* C9.  Once selectPhysicalDevice has run: with no device enumerated it    *)
(* has failed with the no-GPU error, with devices but none suitable it has *)
(* failed with the no-suitable-device error, and otherwise it has selected *)
(* the first suitable device of the enumeration.                           *)
(***************************************************************************)
SelectRan ==
    \/ StepNo(pc) > StepNo("selectPhysicalDevice") /\ pc # "exited"
    \/ pc = "exited" /\ CreatedAt("surface", 1) # {}

SuitablePositions == {k \in DOMAIN physicalDevices : isPhysicalDeviceSuitable(physicalDevices[k])}

C9_FirstSuitableDevice ==
    SelectRan =>
        IF Len(physicalDevices) = 0
        THEN pc = "exited" /\ what = "failed to find GPUs with Vulkan support!"
                           /\ m_physicalDevice = VK_NULL_HANDLE
        ELSE IF SuitablePositions = {}
        THEN pc = "exited" /\ what = "failed to find a suitable GPU!"
                           /\ m_physicalDevice = VK_NULL_HANDLE
        ELSE /\ m_physicalDevice \in SuitablePositions
             /\ \A k \in SuitablePositions : m_physicalDevice <= k
             /\ what \notin {"failed to find GPUs with Vulkan support!",
                             "failed to find a suitable GPU!"}

C9_Witness ==
    /\ pc = "createLogicalDevice"
    /\ Len(physicalDevices) = 2
    /\ m_physicalDevice = 1
    /\ SuitablePositions = {1, 2}
    /\ physicalDevices[1] # physicalDevices[2]

(***************************************************************************)
(* C10.  For a non-empty list, selectSwapSurfaceFormat returns the entry   *)
(* with format B8G8R8A8_SRGB and color space SRGB_NONLINEAR if the list    *)
(* holds one, wherever it is, and the first entry otherwise; the result is *)
(* an element of the list.                                                 *)
(***************************************************************************)
C10_SurfaceFormat ==
    (pc = "returned") =>
        /\ ret \in Range(arg)
        /\ IF PreferredFormat \in Range(arg) THEN ret = PreferredFormat ELSE ret = arg[1]

C10_Witness ==
    /\ pc = "returned"
    /\ Len(arg) = 3
    /\ arg[1] = P3Format
    /\ arg[3] = PreferredFormat
    /\ ret = PreferredFormat

(***************************************************************************)
(* C11.  For every list of available present modes, the empty list and     *)
(* lists without FIFO included, selectSwapPresentMode returns mailbox if   *)
(* and only if mailbox is in the list, and FIFO otherwise.                 *)
(***************************************************************************)
PresentModes ==
    {VK_PRESENT_MODE_IMMEDIATE_KHR, VK_PRESENT_MODE_MAILBOX_KHR, VK_PRESENT_MODE_FIFO_KHR}
PresentModeLists == SeqsUpTo(PresentModes, MaxModes)
InitSelectSwapPresentMode == UnitInit("selectSwapPresentMode", PresentModeLists)
callSelectSwapPresentMode ==
    UnitCall("selectSwapPresentMode", selectSwapPresentMode(arg))
SpecSelectSwapPresentMode ==
    InitSelectSwapPresentMode /\ [][callSelectSwapPresentMode]_vars

C11_PresentMode ==
    (pc = "returned") =>
        /\ (ret = VK_PRESENT_MODE_MAILBOX_KHR) <=> (VK_PRESENT_MODE_MAILBOX_KHR \in Range(arg))
        /\ (VK_PRESENT_MODE_MAILBOX_KHR \notin Range(arg)) => ret = VK_PRESENT_MODE_FIFO_KHR

C11_Witness ==
    /\ pc = "returned"
    /\ arg # <<>>
    /\ Range(arg) = {VK_PRESENT_MODE_IMMEDIATE_KHR}
    /\ ret = VK_PRESENT_MODE_FIFO_KHR

(***************************************************************************)
(* C12.  For every surface-capabilities record, selectSwapExtent returns   *)
(* the current extent unmodified when it is defined (not the max-uint32    *)
(* sentinel); when it is the sentinel, the width of the result is the      *)
(* window width clamped into [minImageExtent.width, maxImageExtent.width]  *)
(* and its height is the window height clamped into                        *)
(* [minImageExtent.height, maxImageExtent.height], each axis on its own.   *)
(***************************************************************************)
\* The surface reports a real extent or the special value, both fields UINT32_MAX;
\* its minimum extent does not exceed its maximum extent on either axis.
ExtentValues == 1..MaxExtent
DefinedExtents == {Extent(w, h) : w \in ExtentValues, h \in ExtentValues}
UndefinedExtent == Extent(UINT32_MAX, UINT32_MAX)
ExtentCapabilities ==
    {[minImageCount |-> 2, maxImageCount |-> 0, currentExtent |-> cur,
      minImageExtent |-> lo, maxImageExtent |-> hi] :
        cur \in DefinedExtents \cup {UndefinedExtent},
        lo \in DefinedExtents,
        hi \in DefinedExtents}
ExtentArguments ==
    {[capabilities |-> caps, windowSize |-> size] :
        caps \in {c \in ExtentCapabilities :
                     /\ c.minImageExtent.width <= c.maxImageExtent.width
                     /\ c.minImageExtent.height <= c.maxImageExtent.height},
        size \in DefinedExtents}
InitSelectSwapExtent == UnitInit("selectSwapExtent", ExtentArguments)
callSelectSwapExtent ==
    UnitCall("selectSwapExtent", selectSwapExtent(arg.capabilities, arg.windowSize))
SpecSelectSwapExtent == InitSelectSwapExtent /\ [][callSelectSwapExtent]_vars

ClampedInto(r, v, lo, hi) ==
    /\ lo <= r /\ r <= hi
    /\ (lo <= v /\ v <= hi) => r = v
    /\ v < lo => r = lo
    /\ v > hi => r = hi

C12_Extent ==
    (pc = "returned") =>
        IF arg.capabilities.currentExtent # UndefinedExtent
        THEN ret = arg.capabilities.currentExtent
        ELSE /\ ClampedInto(ret.width, arg.windowSize.width,
                            arg.capabilities.minImageExtent.width,
                            arg.capabilities.maxImageExtent.width)
             /\ ClampedInto(ret.height, arg.windowSize.height,
                            arg.capabilities.minImageExtent.height,
                            arg.capabilities.maxImageExtent.height)

\* the window is too wide and too low at once: the width comes down, the height goes up
C12_Witness ==
    /\ pc = "returned"
    /\ arg.capabilities.currentExtent = UndefinedExtent
    /\ arg.windowSize.width > arg.capabilities.maxImageExtent.width
    /\ arg.windowSize.height < arg.capabilities.minImageExtent.height
    /\ ret = Extent(arg.capabilities.maxImageExtent.width,
                    arg.capabilities.minImageExtent.height)

(***************************************************************************)
(* C13.  The image count requested at swapchain creation equals            *)
(* minImageCount + 1, except that when maxImageCount is nonzero and        *)
(* minImageCount + 1 exceeds it the requested count equals maxImageCount;  *)
(* a maxImageCount of zero imposes no upper bound.                         *)
(***************************************************************************)
ImageCountCapabilities ==
    {[minImageCount |-> lo, maxImageCount |-> hi, currentExtent |-> Extent(WIDTH, HEIGHT),
      minImageExtent |-> Extent(WIDTH, HEIGHT), maxImageExtent |-> Extent(WIDTH, HEIGHT)] :
        lo \in 0..MaxImageCount,
        hi \in 0..MaxImageCount}
InitSwapImageCount == UnitInit("swapImageCount", ImageCountCapabilities)
callSwapImageCount == UnitCall("swapImageCount", swapImageCount(arg))
SpecSwapImageCount == InitSwapImageCount /\ [][callSwapImageCount]_vars

C13_ImageCount ==
    (pc = "returned") =>
        IF arg.maxImageCount # 0 /\ arg.minImageCount + 1 > arg.maxImageCount
        THEN ret = arg.maxImageCount
        ELSE ret = arg.minImageCount + 1

C13_Witness ==
    /\ pc = "returned"
    /\ arg.maxImageCount # 0
    /\ arg.minImageCount + 1 > arg.maxImageCount
    /\ ret = arg.maxImageCount
    /\ ret # arg.minImageCount + 1

(***************************************************************************)
(* C14.  For every pair of a required device-extension set and an          *)
(* available device-extension list, checkDeviceExtensionSupport returns    *)
(* true if and only if every required name appears in the available list   *)
(* by exact case-sensitive match, whatever the order of the available list *)
(* and the duplicates in it.                                               *)
(***************************************************************************)
vk_khr_swapchain == "vk_khr_swapchain"
ExtensionNames == {VK_KHR_SWAPCHAIN_EXTENSION_NAME, vk_khr_swapchain, VK_KHR_portability_subset}
ExtensionArguments ==
    {[required |-> required, available |-> available] :
        required \in SeqsUpTo(ExtensionNames, MaxRequired),
        available \in SeqsUpTo(ExtensionNames, MaxAvailable)}
InitCheckDeviceExtensionSupport ==
    UnitInit("checkDeviceExtensionSupport", ExtensionArguments)
callCheckDeviceExtensionSupport ==
    UnitCall("checkDeviceExtensionSupport", checkExtensionSupport(arg.required, arg.available))
SpecCheckDeviceExtensionSupport ==
    InitCheckDeviceExtensionSupport /\ [][callCheckDeviceExtensionSupport]_vars

C14_ExtensionSupport ==
    (pc = "returned") =>
        ret = (\A i \in 1..Len(arg.required) :
                  \E j \in 1..Len(arg.available) : arg.available[j] = arg.required[i])

\* the required name is there twice, but only in another case
C14_Witness ==
    /\ pc = "returned"
    /\ arg.required = <<VK_KHR_SWAPCHAIN_EXTENSION_NAME>>
    /\ arg.available = <<vk_khr_swapchain, VK_KHR_portability_subset, vk_khr_swapchain>>
    /\ ret = FALSE

(***************************************************************************)
(* C15.  If creating the image view at index k fails, createImageViews     *)
(* fails as a whole with the image-view error, and the k views created at  *)
(* the indices before k are each destroyed during teardown: none leaks.    *)
(***************************************************************************)
ImageViewsFailed == pc = "exited" /\ what = "failed to create image views!"

C15_PartialViewsDestroyed ==
    ImageViewsFailed =>
        /\ exitCode = EXIT_FAILURE
        /\ \A i \in DOMAIN calls :
              calls[i][1] = "vkCreateImageView" =>
                  \E j \in DOMAIN calls :
                      j > i /\ calls[j] = <<"vkDestroyImageView", calls[i][2]>>

(***************************************************************************)
(* C16.  At swapchain creation the image sharing mode is concurrent, with  *)
(* a queue-family list of exactly the two distinct indices graphicsFamily  *)
(* and presentFamily, if and only if the two differ; when they are the     *)
(* same family the mode is exclusive and the list is empty.                *)
(***************************************************************************)
SwapChainRequested == "imageSharingMode" \in DOMAIN swapChainCreateInfo
SelectedIndices == findQueueFamilies(physicalDevices[m_physicalDevice])
graphicsFamily == value(SelectedIndices.graphicsFamily)
presentFamily == value(SelectedIndices.presentFamily)

C16_SharingMode ==
    SwapChainRequested =>
        IF graphicsFamily # presentFamily
        THEN /\ swapChainCreateInfo.imageSharingMode = VK_SHARING_MODE_CONCURRENT
             /\ Len(swapChainCreateInfo.queueFamilyIndices) = 2
             /\ Range(swapChainCreateInfo.queueFamilyIndices) = {graphicsFamily, presentFamily}
        ELSE /\ swapChainCreateInfo.imageSharingMode = VK_SHARING_MODE_EXCLUSIVE
             /\ swapChainCreateInfo.queueFamilyIndices = <<>>

C16_Witness ==
    /\ SwapChainRequested
    /\ m_swapChain # VK_NULL_HANDLE
    /\ graphicsFamily # presentFamily
    /\ swapChainCreateInfo.imageSharingMode = VK_SHARING_MODE_CONCURRENT

(***************************************************************************)
(* C17.  createLogicalDevice builds one queue-create entry per distinct    *)
(* value among graphicsFamily and presentFamily (one entry when they       *)
(* coincide, two when they differ), each with queue count 1, and retrieves *)
(* the graphics and the present queue at queue index 0 of their families.  *)
(***************************************************************************)
DeviceRequested == "queueCreateInfos" \in DOMAIN deviceCreateInfo
QueueFamilyIndexOf(queueCreateInfos) ==
    [k \in DOMAIN queueCreateInfos |-> queueCreateInfos[k].queueFamilyIndex]

C17_QueueCreateInfos ==
    /\ DeviceRequested =>
          LET queueCreateInfos == deviceCreateInfo.queueCreateInfos
          IN  /\ Len(queueCreateInfos) = IF graphicsFamily = presentFamily THEN 1 ELSE 2
              /\ Range(QueueFamilyIndexOf(queueCreateInfos)) = {graphicsFamily, presentFamily}
              /\ \A k \in DOMAIN queueCreateInfos : queueCreateInfos[k].queueCount = 1
    /\ m_device # VK_NULL_HANDLE =>
          /\ DeviceRequested
          /\ m_graphicsQueue = <<graphicsFamily, 0>>
          /\ m_presentQueue = <<presentFamily, 0>>

C17_Witness ==
    /\ m_device # VK_NULL_HANDLE
    /\ Len(physicalDevices[m_physicalDevice].queueFamilies) > 1
    /\ graphicsFamily = presentFamily
    /\ Len(deviceCreateInfo.queueCreateInfos) = 1
    /\ m_graphicsQueue = m_presentQueue

(***************************************************************************)
(* C18.  After createImageViews succeeds and until teardown, the           *)
(* image-view sequence is as long as the swapchain image sequence the      *)
(* driver reported (not the requested count), and the view at index i was  *)
(* created from the image at index i.                                      *)
(***************************************************************************)
ImageViewsCreated == pc \in {"mainLoop", "cleanup"}
IsCreateImageView(call) == call[1] = "vkCreateImageView"

C18_ImageViews ==
    ImageViewsCreated =>
        /\ Len(m_swapChainImageViews) = Len(m_swapChainImages)
        /\ Len(m_swapChainImages) >= swapChainCreateInfo.minImageCount
        /\ \A i \in DOMAIN m_swapChainImageViews :
              m_swapChainImageViews[i] = m_swapChainImages[i]
        /\ SelectSeq(calls, IsCreateImageView) =
              [i \in DOMAIN m_swapChainImages |-> <<"vkCreateImageView", m_swapChainImages[i]>>]

\* the driver allocated more images than were requested
C18_Witness ==
    /\ ImageViewsCreated
    /\ Len(m_swapChainImages) > swapChainCreateInfo.minImageCount
    /\ Len(m_swapChainImageViews) = Len(m_swapChainImages)

(***************************************************************************)
(* C19.  With diagnostics enabled and a required validation layer not      *)
(* among the available layers, createInstance fails with the               *)
(* unsupported-layer error before instance creation is attempted, so no    *)
(* instance and no later resource is ever created; with diagnostics        *)
(* disabled the layer check never makes it fail.                           *)
(***************************************************************************)
LayerError == "validation layers requested, but not available!"
LayerMissing == \E n \in DOMAIN VALIDATION_LAYERS : VALIDATION_LAYERS[n] \notin Range(instanceLayers)
CreateInstanceRan ==
    /\ pc \notin {"createGLFWLibrary", "createWindow", "createInstance"}
    /\ what # "Failed to initialize GLFW"
VulkanCalls == {i \in DOMAIN calls : calls[i][1] \notin {"glfwInit", "glfwCreateWindow"}}

C19_UnsupportedLayer ==
    /\ (CreateInstanceRan /\ ENABLE_VALIDATION_LAYERS /\ LayerMissing) =>
          /\ pc = "exited"
          /\ what = LayerError
          /\ exitCode = EXIT_FAILURE
          /\ m_instance = VK_NULL_HANDLE
          /\ VulkanCalls = {}
    /\ what = LayerError => ENABLE_VALIDATION_LAYERS /\ LayerMissing
    /\ (CreateInstanceRan /\ ~ENABLE_VALIDATION_LAYERS /\ LayerMissing) =>
          \/ m_instance # VK_NULL_HANDLE
          \/ what = "failed to create instance!"

\* layers are reported, the required one is not among them
C19_Witness ==
    /\ pc = "exited"
    /\ what = LayerError
    /\ instanceLayers = <<VK_LAYER_LUNARG_api_dump>>
    /\ calls = << <<"glfwInit", 0>>, <<"glfwCreateWindow", m_window>> >>

(***************************************************************************)
(* C20.  The dynamically resolved messenger entry points are never invoked *)
(* when they cannot be resolved.  If the installer entry point is absent,  *)
(* the installation returns the extension-not-present error and            *)
(* setupDebugMessenger fails the pipeline; if the uninstaller entry point  *)
(* is absent, the uninstall does nothing and teardown goes on to the       *)
(* remaining destroy steps.                                                *)
(***************************************************************************)
IsMessengerCreate(call) == call[1] = "vkCreateDebugUtilsMessengerEXT"
IsMessengerDestroy(call) == call[1] = "vkDestroyDebugUtilsMessengerEXT"
RemainingDestroySteps ==
    << <<"vkDestroySurfaceKHR", m_surface>>, <<"vkDestroyInstance", m_instance>>,
       <<"glfwDestroyWindow", m_window>>, <<"glfwTerminate", 0>> >>

C20_UnresolvedEntryPoints ==
    /\ \A r \in VkResults :
          CreateDebugUtilsMessengerEXT(FALSE, r) = "VK_ERROR_EXTENSION_NOT_PRESENT"
    /\ \A i \in DOMAIN calls :
          /\ IsMessengerCreate(calls[i]) => i > 1 /\ calls[i - 1] = GetCreateProcAddr(TRUE)
          /\ IsMessengerDestroy(calls[i]) => i > 1 /\ calls[i - 1] = GetDestroyProcAddr(TRUE)
          /\ calls[i] = GetCreateProcAddr(FALSE) =>
                /\ SelectSeq(calls, IsMessengerCreate) = <<>>
                /\ m_debugMessenger = VK_NULL_HANDLE
                /\ i = Len(calls)
                /\ pc = "exited"
                /\ what = "failed to set up debug messenger!"
                /\ exitCode = EXIT_FAILURE
          /\ calls[i] = GetDestroyProcAddr(FALSE) =>
                /\ SelectSeq(calls, IsMessengerDestroy) = <<>>
                /\ SubSeq(calls, i + 1, Len(calls)) = RemainingDestroySteps
                /\ pc = "exited"
                /\ exitCode = EXIT_SUCCESS

\* the messenger was installed, its uninstaller did not resolve, the rest was destroyed
C20_Witness ==
    /\ pc = "exited"
    /\ \E i \in DOMAIN calls : calls[i] = GetCreateProcAddr(TRUE)
    /\ \E i \in DOMAIN calls :
          /\ calls[i] = GetDestroyProcAddr(FALSE)
          /\ SubSeq(calls, i + 1, Len(calls)) = RemainingDestroySteps

(***************************************************************************)
(* C21.  For every severity bit-set, the diagnostic callback labels the    *)
(* message ERROR if the error bit is set, otherwise WARN if the warning    *)
(* bit is set, otherwise INFO (the highest set bit wins), and for every    *)
(* input it returns the do-not-abort value, raises no error and changes no *)
(* owned resource.                                                         *)
(***************************************************************************)
RECURSIVE Sum(_)
Sum(S) == IF S = {} THEN 0 ELSE LET x == CHOOSE y \in S : TRUE IN x + Sum(S \ {x})
SeverityBits ==
    {VK_DEBUG_UTILS_MESSAGE_SEVERITY_VERBOSE_BIT_EXT, VK_DEBUG_UTILS_MESSAGE_SEVERITY_INFO_BIT_EXT,
     VK_DEBUG_UTILS_MESSAGE_SEVERITY_WARNING_BIT_EXT, VK_DEBUG_UTILS_MESSAGE_SEVERITY_ERROR_BIT_EXT}
TypeBits ==
    {VK_DEBUG_UTILS_MESSAGE_TYPE_GENERAL_BIT_EXT, VK_DEBUG_UTILS_MESSAGE_TYPE_VALIDATION_BIT_EXT,
     VK_DEBUG_UTILS_MESSAGE_TYPE_PERFORMANCE_BIT_EXT}
CallbackArguments ==
    {[messageSeverity |-> Sum(severity), messageType |-> Sum(type), pMessage |-> message] :
        severity \in SUBSET SeverityBits,
        type \in SUBSET TypeBits,
        message \in 1..MaxMessages}
InitDebugCallback == UnitInit("debugCallback", CallbackArguments)
callDebugCallback ==
    UnitCall("debugCallback",
             debugCallback(arg.messageSeverity, arg.messageType, arg.pMessage))
SpecDebugCallback == InitDebugCallback /\ [][callDebugCallback]_vars

\* the set of bits whose sum is flags
BitsOf(flags, bits) == CHOOSE S \in SUBSET bits : Sum(S) = flags

C21_DebugCallback ==
    (pc = "returned") =>
        LET severity == BitsOf(arg.messageSeverity, SeverityBits)
        IN  /\ ret.cerr[1] =
                  IF VK_DEBUG_UTILS_MESSAGE_SEVERITY_ERROR_BIT_EXT \in severity THEN "ERROR"
                  ELSE IF VK_DEBUG_UTILS_MESSAGE_SEVERITY_WARNING_BIT_EXT \in severity
                  THEN "WARN "
                  ELSE "INFO "
            /\ ret.cerr[2] = arg.pMessage
            /\ ret.result = VK_FALSE
            /\ AppInit

\* a warning and an error at once: the error wins
C21_Witness ==
    /\ pc = "returned"
    /\ arg.messageSeverity = VK_DEBUG_UTILS_MESSAGE_SEVERITY_WARNING_BIT_EXT
                                + VK_DEBUG_UTILS_MESSAGE_SEVERITY_ERROR_BIT_EXT
    /\ ret.cerr[1] = "ERROR"
    /\ ret.result = VK_FALSE

(***************************************************************************)
(* C22.  Every device extension name requested when the logical device is  *)
(* created (the required device extensions and the portability-subset      *)
(* extension added to them unconditionally) was verified by the            *)
(* suitability check to be available on the selected physical device: a    *)
(* device judged suitable has no requested extension that was not checked. *)
(***************************************************************************)
C22_RequestedExtensionsChecked ==
    DeviceRequested =>
        /\ isPhysicalDeviceSuitable(physicalDevices[m_physicalDevice])
        /\ Range(deviceCreateInfo.enabledExtensionNames) =
              Range(DEVICE_EXTENSIONS) \cup {VK_KHR_portability_subset}
        /\ \A name \in Range(deviceCreateInfo.enabledExtensionNames) :
              name \in Range(physicalDevices[m_physicalDevice].extensions)

(***************************************************************************)
(* C23.  Whenever createSwapChain runs, the format list passed to          *)
(* selectSwapSurfaceFormat is non-empty and both queue-family indices      *)
(* re-queried for the selected device are present, the driver answering    *)
(* the queries as it did during device selection; so the first-entry       *)
(* fallback and the optional-value reads in createLogicalDevice and        *)
(* createSwapChain never access an absent value.                           *)
(***************************************************************************)
DeviceSelected == (pc \in {"createLogicalDevice", "createSwapChain"}) \/ DeviceRequested

C23_NoAbsentValueRead ==
    /\ what # "bad optional access"
    /\ DeviceSelected =>
          /\ m_physicalDevice \in DOMAIN physicalDevices
          /\ querySwapChainSupport(physicalDevices[m_physicalDevice]).formats # <<>>
          /\ has_value(SelectedIndices.graphicsFamily)
          /\ has_value(SelectedIndices.presentFamily)
    /\ SwapChainRequested =>
          SurfaceFormat(swapChainCreateInfo.imageFormat, swapChainCreateInfo.imageColorSpace)
              \in Range(physicalDevices[m_physicalDevice].formats)

\* the swapchain was requested for the second device: the first one reports no format
C23_Witness ==
    /\ SwapChainRequested
    /\ m_physicalDevice = 2
    /\ physicalDevices[1].formats = <<>>
    /\ isComplete(findQueueFamilies(physicalDevices[1]))
    /\ swapChainCreateInfo.imageFormat # ""

(***************************************************************************)
(* C24.  After initialization succeeds, if the windowing layer eventually  *)
(* reports should-close, the event-poll loop exits, cleanup then runs to   *)
(* completion destroying every owned resource, the window and the          *)
(* windowing library, and the process terminates with exit code 0; cleanup *)
(* never starts while should-close is still false.  As claimed.            *)
(***************************************************************************)
CloseReported == pc = "mainLoop" /\ shouldClose
WindowAndLibraryDestroyed ==
    /\ \E i \in DOMAIN calls : calls[i] = <<"glfwDestroyWindow", m_window>>
    /\ calls[Len(calls)] = <<"glfwTerminate", 0>>
CleanupStartedOnClose == (pc = "cleanup" \/ CleanShutdown) => shouldClose

C24_EverythingDestroyed ==
    /\ []CleanupStartedOnClose
    /\ CloseReported ~>
          (/\ CleanShutdown
           /\ \A r \in OwnedResources : Cardinality(DestroyedAt(r[1], r[2])) = 1
           /\ WindowAndLibraryDestroyed)

(***************************************************************************)
(* C24, amended.  As C24, except that cleanup destroys the diagnostic      *)
(* messenger only when its destroy entry point resolves; every other owned *)
(* resource, the window and the windowing library are destroyed in every   *)
(* such run.                                                               *)
(***************************************************************************)
C24_Shutdown ==
    /\ []CleanupStartedOnClose
    /\ CloseReported ~>
          (/\ CleanShutdown
           /\ \A r \in OwnedResources :
                 Cardinality(DestroyedAt(r[1], r[2])) =
                     IF r[1] = "debugMessenger" /\ ~DestroyLookupResolved THEN 0 ELSE 1
           /\ WindowAndLibraryDestroyed)

\* the close request came with the last poll, and the process has exited
C24_Witness ==
    /\ CleanShutdown
    /\ shouldClose
    /\ polls = MaxPolls
    /\ WindowAndLibraryDestroyed
    /\ DestroyedAt("instance", 1) # {}

====
